---- MODULE Spec2Model ----
(***************************************************************************)
(* Calendar assistant (src/main.py): the durable store (events,           *)
(* notifications), the APScheduler timer registry, the per-user pending    *)
(* tasks and the handlers that change them.                                *)
(*                                                                         *)
(* Time is counted in minutes since 1 January of year 0 of the model; the   *)
(* years 0, 4, 8, ... are leap years.  The wall clock `now` is the local    *)
(* time datetime.now() gives; SQLite's datetime('now') is UTC, the local    *)
(* time less the offset `tz` of the zone the process runs in.  A handler's  *)
(* code between two awaits runs without interleaving (one event loop) and   *)
(* is one action here.                                                     *)
(***************************************************************************)
EXTENDS Integers, Sequences, FiniteSets, Bags, TLC

\* ------------------------------------------------------------------ bounds
MaxId     == 1       \* event ids handed out are 1..MaxId (one event at a time)
MaxIdPair == 2       \* the same in the scope with two events side by side
MaxSends  == 1       \* send_notification coroutines suspended at once
MaxCalls  == 1       \* handle_notification_selection coroutines suspended at once
MaxTexts  == 1       \* handle_event_text coroutines suspended at once
MaxCount  == 2       \* the history counters stop counting here
Horizon   == 560160  \* the clock is followed up to this minute (day 389, 00:00)

\* ------------------------------------------------------------------- time
Day  == 1440
Year == 525600

Min(a, b) == IF a <= b THEN a ELSE b
Max(a, b) == IF a >= b THEN a ELSE b

\* An ISO string "YYYY-MM-DDTHH:MM" is the record [d |-> day, hm |-> minute of
\* the day].  NoIso is a timestamp field that is missing or empty, BadIso a
\* string datetime.fromisoformat rejects.
Iso(d, hm) == [d |-> d, hm |-> hm]
NoIso  == Iso(-1, 0)
BadIso == Iso(-2, 0)

fromisoformat(s) == s.d * Day + s.hm
isoformat(t) == [d |-> t \div Day, hm |-> t % Day]
\* The calendar: Year is a common year; the years 0, 4, 8, ... have a 29
\* February, the day 59 of the year counted from 0.
IsLeap(y) == y % 4 = 0
YearStart(y) == y * Year + ((y + 3) \div 4) * Day
YearOf(t) == IF YearStart(t \div Year) <= t THEN t \div Year ELSE (t \div Year) - 1

\* The place of the day of t among the 366 days of a leap year.
DayInLeapYear(t) ==
    LET doy == (t - YearStart(YearOf(t))) \div Day
    IN  IF IsLeap(YearOf(t)) \/ doy < 59 THEN doy ELSE doy + 1

\* dt.replace(year=y): ValueError for 29 February in a common year.
ValueError == -1
ReplaceYear(t, y) ==
    LET pos == DayInLeapYear(t)
    IN  IF ~IsLeap(y) /\ pos = 59 THEN ValueError
        ELSE YearStart(y) + (IF IsLeap(y) \/ pos < 59 THEN pos ELSE pos - 1) * Day + (t % Day)

\* ---------------------------------------------------------------- strings
\* A string is a sequence of characters.  The characters of the model are
\* ASCII and the whitespace characters of Unicode.  A character is written as
\* the one-character string of it where a string of the module can hold it,
\* and by its code point, as in "U+00A0", where it cannot.
\* str.lower() on one character: a capital letter gives its small letter,
\* every other character of the model is left as it is.
Capitals ==
    << "A", "B", "C", "D", "E", "F", "G", "H", "I", "J", "K", "L", "M",
       "N", "O", "P", "Q", "R", "S", "T", "U", "V", "W", "X", "Y", "Z" >>

Smalls ==
    << "a", "b", "c", "d", "e", "f", "g", "h", "i", "j", "k", "l", "m",
       "n", "o", "p", "q", "r", "s", "t", "u", "v", "w", "x", "y", "z" >>

Lower(c) ==
    IF \E i \in DOMAIN Capitals : Capitals[i] = c
    THEN Smalls[CHOOSE i \in DOMAIN Capitals : Capitals[i] = c]
    ELSE c

lower(s) == [i \in 1..Len(s) |-> Lower(s[i])]

\* The characters str.split() splits at, those str.isspace() is true of: the
\* blank, the tab, the line feed, the form feed, the carriage return, the
\* vertical tab, the four separators U+001C to U+001F, the next line U+0085,
\* the no-break space and the other spaces and separators of Unicode.
Whitespace ==
    { " ", "\t", "\n", "\f", "\r", "U+000B", "U+001C", "U+001D", "U+001E", "U+001F",
      "U+0085", "U+00A0", "U+1680", "U+2000", "U+2001", "U+2002", "U+2003", "U+2004",
      "U+2005", "U+2006", "U+2007", "U+2008", "U+2009", "U+200A", "U+2028", "U+2029",
      "U+202F", "U+205F", "U+3000" }

\* A split that knows the blank only.
SplitAtBlank(s) ==
    { SubSeq(s, i, j) : <<i, j>> \in
        { p \in (1..Len(s)) \X (1..Len(s)) :
            /\ p[1] <= p[2]
            /\ \A k \in p[1]..p[2] : s[k] # " "
            /\ (p[1] = 1 \/ s[p[1] - 1] = " ")
            /\ (p[2] = Len(s) \/ s[p[2] + 1] = " ") } }

\* str.split(): the set of the maximal runs without a whitespace character.
Words(s) ==
    { SubSeq(s, i, j) : <<i, j>> \in
        { p \in (1..Len(s)) \X (1..Len(s)) :
            /\ p[1] <= p[2]
            /\ \A k \in p[1]..p[2] : s[k] \notin Whitespace
            /\ (p[1] = 1 \/ s[p[1] - 1] \in Whitespace)
            /\ (p[2] = Len(s) \/ s[p[2] + 1] \in Whitespace) } }

\* SequenceMatcher(None, a, b) keeps autojunk: when b holds 200 elements or
\* more, those that occur more than len(b) // 100 + 1 times are "popular" and
\* leave the index b2j.
Popular(b) ==
    IF Len(b) >= 200
    THEN { b[k] : k \in { j \in 1..Len(b) :
                            Cardinality({ i \in 1..Len(b) : b[i] = b[j] })
                              > Len(b) \div 100 + 1 } }
    ELSE {}

\* The common blocks of a[alo..ahi-1] and b[blo..bhi-1] that the index finds:
\* <<start in a, start in b, size>>, no popular element in them.
Blocks(a, b, alo, ahi, blo, bhi) ==
    LET popular == Popular(b)
    IN  { t \in (alo..(ahi - 1)) \X (blo..(bhi - 1)) \X (1..Len(a)) :
            /\ t[1] + t[3] <= ahi
            /\ t[2] + t[3] <= bhi
            /\ \A x \in 0..(t[3] - 1) :
                  a[t[1] + x] = b[t[2] + x] /\ b[t[2] + x] \notin popular }

\* How far a block widens from a[i], b[j] in the direction step (-1 to the
\* left, 1 to the right), at most max elements: over the elements that are
\* equal, up to the first pair that differs.
Extend(a, b, i, j, step, max) ==
    CHOOSE k \in 0..max :
        /\ \A x \in 1..k : a[i + step * x] = b[j + step * x]
        /\ k < max => a[i + step * (k + 1)] # b[j + step * (k + 1)]

\* The block find_longest_match takes of those the index finds: the longest,
\* the earliest in a, then the earliest in b; <<alo, blo, 0>> when there is
\* none.
BestBlock(B, alo, blo) ==
    IF B = {} THEN <<alo, blo, 0>>
    ELSE CHOOSE t \in B :
           \A o \in B :
             \/ t[3] > o[3]
             \/ (t[3] = o[3] /\ t[1] < o[1])
             \/ (t[3] = o[3] /\ t[1] = o[1] /\ t[2] <= o[2])

\* The block best widened on both sides over the elements that are equal,
\* popular ones too (no element is junk).
Widened(a, b, best, alo, ahi, blo, bhi) ==
    LET left == Extend(a, b, best[1], best[2], -1,
                       Min(best[1] - alo, best[2] - blo))
        right == Extend(a, b, best[1] + best[3] - 1, best[2] + best[3] - 1, 1,
                        Min(ahi - best[1] - best[3], bhi - best[2] - best[3]))
    IN  <<best[1] - left, best[2] - left, best[3] + left + right>>

\* difflib.SequenceMatcher.find_longest_match on a[alo..ahi-1], b[blo..bhi-1].
LongestMatch(a, b, alo, ahi, blo, bhi) ==
    Widened(a, b, BestBlock(Blocks(a, b, alo, ahi, blo, bhi), alo, blo),
            alo, ahi, blo, bhi)

\* The sum of the sizes of SequenceMatcher.get_matching_blocks(): the block m
\* found in a[alo..ahi-1], b[blo..bhi-1], and the blocks left and right of it.
RECURSIVE MatchCount(_, _, _, _, _, _)
AroundMatch(a, b, alo, ahi, blo, bhi, m) ==
    IF m[3] = 0 THEN 0
    ELSE m[3] + MatchCount(a, b, alo, m[1], blo, m[2])
              + MatchCount(a, b, m[1] + m[3], ahi, m[2] + m[3], bhi)

MatchCount(a, b, alo, ahi, blo, bhi) ==
    AroundMatch(a, b, alo, ahi, blo, bhi, LongestMatch(a, b, alo, ahi, blo, bhi))

\* A ratio is the pair <<numerator, denominator>>, denominator > 0.
RatioGeq(r, q) == r[1] * q[2] >= q[1] * r[2]

\* SequenceMatcher(None, x, y).ratio()
ratio(x, y) ==
    IF Len(x) + Len(y) = 0 THEN <<1, 1>>
    ELSE <<2 * MatchCount(x, y, 1, Len(x) + 1, 1, Len(y) + 1), Len(x) + Len(y)>>

\* similarity(a, b): SequenceMatcher(None, a.lower(), b.lower()).ratio()
similarity(a, b) == ratio(lower(a), lower(b))

word_similarity(query, description) ==
    LET qw == Words(lower(query))
        ew == Words(lower(description))
    IN  IF qw = {} /\ ew = {} THEN <<0, 1>>
        ELSE <<Cardinality(qw \cap ew), Max(Cardinality(qw), Cardinality(ew))>>

\* max(full_similarity, word_similarity)
final_similarity(query, description) ==
    IF RatioGeq(similarity(query, description), word_similarity(query, description))
    THEN similarity(query, description)
    ELSE word_similarity(query, description)

Threshold == <<3, 10>>

\* if final_similarity >= threshold
SimilarAt(query, description, threshold) ==
    RatioGeq(final_similarity(query, description), threshold)

\* The same at the default threshold, as every call of the program has it.
Similar(query, description) == SimilarAt(query, description, Threshold)

\* ---------------------------------------------------------------- inputs
Users == {1, 2}

\* The zones a process may run in, as local time minus UTC in minutes:
\* UTC-5, UTC, UTC+3.
Zones == { -300, 0, 180 }

\* The clock at start: 20 January of year 1, 10:00.
Now0 == Year + 20 * Day + 600

\* Timestamp strings the completion collaborator returns: today 08:00 (not in
\* the future at start), the day after tomorrow 12:00, the day after that
\* 10:00.
Past  == Iso(385, 480)
Old   == Iso(380, 480)
Noon  == Iso(387, 720)
Later == Iso(388, 600)

\* Today 12:00, two hours after the start.
Soon  == Iso(385, 720)

\* An instant the clock is looked at, besides the run dates of the timers: the
\* day after tomorrow 12:00.
Checkpoints == { 387 * Day + 720 }

Descriptions == { <<"a", "b">>, <<"c", "d">>, <<"a", "d">>, <<"a", " ", "b">> }
Queries == { <<"A", "b">>, <<"a", "d">>, <<"e", "e">>, <<"b", "\t", "U+00A0", "a">> }

\* What the completion collaborator's reply holds once json.loads has read it:
\* json is FALSE for a reply that is no JSON object; an absent or empty field
\* is <<>> (a string) or NoIso (a timestamp).
Payload(c, ev, dt, ndt, nev) ==
    [json |-> TRUE, command |-> c, event |-> ev, datetime |-> dt,
     new_datetime |-> ndt, new_event |-> nev]

Malformed == [json |-> FALSE, command |-> "", event |-> <<>>, datetime |-> NoIso,
              new_datetime |-> NoIso, new_event |-> <<>>]

\* The texts of messages: "HH:MM", an hour alone "HH", "DD.MM.YYYY" (a date of
\* the calendar, as its day), "DD.MM" (a day and a month, as the place of the
\* day among the 366 days of a leap year, from 0; NoDay for a day the month
\* has not),
\* a day word ("today", "tomorrow", "aftertomorrow"), anything else ("other").
Clock(h, m) == [kind |-> "hhmm", h |-> h, m |-> m, d |-> 0]
Hour(h) == [kind |-> "hh", h |-> h, m |-> 0, d |-> 0]
Dated(d) == [kind |-> "dmy", h |-> 0, m |-> 0, d |-> d]
DayMonth(pos) == [kind |-> "dm", h |-> 0, m |-> 0, d |-> pos]
Word(w) == [kind |-> w, h |-> 0, m |-> 0, d |-> 0]
NoDay == -1

\* A message: its text as parse_time_input sees it, and what the completion
\* collaborator answers when asked about it.
Said(p) == [text |-> Word("other"), payload |-> p]
Typed(t) == [text |-> t, payload |-> Malformed]

\* The messages T as sent, and the buttons D as pressed, by each user of U.
Sent(U, T) == { [user |-> u, msg |-> m] : u \in U, m \in T }
Pressed(U, D) == { [user |-> u, data |-> d] : u \in U, d \in D }

\* --------------------------------------------------------------- options
\* NOTIFICATION_OPTIONS: key -> minutes.  A key is the sequence of the pieces
\* that "_" separates in it.
NOTIFICATION_OPTIONS ==
    [ k \in { <<"5min">>, <<"15min">>, <<"30min">>, <<"1hour">>, <<"2hour">>,
              <<"1day">>, <<"no", "notification">> } |->
        CASE k = <<"5min">>  -> 5
          [] k = <<"15min">> -> 15
          [] k = <<"30min">> -> 30
          [] k = <<"1hour">> -> 60
          [] k = <<"2hour">> -> 120
          [] k = <<"1day">>  -> 1440
          [] OTHER           -> 0 ]

\* create_notification_keyboard: the callback data of the seven option buttons,
\* "notify_" followed by the key, as the pieces that "_" separates.
create_notification_keyboard ==
    { <<"notify">> \o k : k \in DOMAIN NOTIFICATION_OPTIONS }

\* callback.data.split("_")[1], then NOTIFICATION_OPTIONS.get(...): <<minutes>>,
\* or <<>> (None) for no such key.
notification_info(data) ==
    IF <<data[2]>> \in DOMAIN NOTIFICATION_OPTIONS
    THEN <<NOTIFICATION_OPTIONS[<<data[2]>>]>>
    ELSE <<>>

\* ----------------------------------------------------------------- state
VARIABLES
    tz,             \* the zone of the process: local time minus UTC, in minutes
    texts,          \* handle_event_text coroutines awaiting bot.send_chat_action
    now,            \* the wall clock, local time
    events,         \* table events: id -> [user_id, description, scheduled_at]
    notifications,  \* table notifications: id -> [event_id, notification_minutes, is_sent]
    jobs,           \* the scheduler's jobs: a bag of [id, run_date, args]
    pending_tasks,  \* the dict pending_tasks: user -> task, a dict itself
    sends,          \* send_notification coroutines awaiting bot.send_message
    calls,          \* handle_notification_selection coroutines at an await
    history,        \* per notification row: reminders delivered, a delivery failed
    last            \* the step taken last: what was done, by or for which user,
                    \* on which event and notification, with which query, and
                    \* the event's scheduled instant before the step

vars == <<tz, texts, now, events, notifications, jobs, pending_tasks, sends, calls, history, last>>

\* dict operations: d[k] = v, del d[k]
Put(d, k, v) == (k :> v) @@ d
Del(d, k) == [x \in DOMAIN d \ {k} |-> d[x]]

Told(op, u, e, n, q, was) == [op |-> op, u |-> u, e |-> e, n |-> n, q |-> q, was |-> was]
Did(op, u, e, n) == Told(op, u, e, n, <<>>, 0)

\* ------------------------------------------------------------ the store
NextId(table) ==
    IF DOMAIN table = {} THEN 1
    ELSE (CHOOSE m \in DOMAIN table : \A i \in DOMAIN table : i <= m) + 1

Without(table, ids) == [i \in DOMAIN table \ ids |-> table[i]]

NotificationsOf(N, e) == { n \in DOMAIN N : N[n].event_id = e }
OneOf(S) == IF S = {} THEN 0 ELSE CHOOSE x \in S : TRUE

\* create_event_with_notification: the two tables after the inserts.
EventRow(u, d, at) == [user_id |-> u, description |-> d, scheduled_at |-> at]
NotificationRow(e, m) == [event_id |-> e, notification_minutes |-> m, is_sent |-> FALSE]

create_event(E, u, d, at) == E @@ (NextId(E) :> EventRow(u, d, at))

\* An insert that does not look at the lead.
create_notification_always(E, N, minutes) ==
    N @@ (NextId(N) :> NotificationRow(NextId(E), minutes))

create_notification(E, N, minutes) ==
    IF minutes > 0 THEN N @@ (NextId(N) :> NotificationRow(NextId(E), minutes))
    ELSE N

\* db.delete(event): the row and, by the cascade, its notifications.
delete_event(E, e) == Without(E, {e})
delete_cascade(N, e) == Without(N, NotificationsOf(N, e))

\* ------------------------------------------------------- the scheduler
job_id(n) == <<"notification", n>>

Job(n, run, u, e) == [id |-> job_id(n), run_date |-> run, user_id |-> u, event_id |-> e,
                      notification_id |-> n]

\* scheduler.remove_job(job_id), a missing job ignored
remove_job(J, id) ==
    LET keep == { j \in DOMAIN J : j.id # id }
    IN  [j \in keep |-> J[j]]

\* scheduler.add_job(...)
add_job(J, j) == J (+) SetToBag({j})

RECURSIVE remove_jobs(_, _)
remove_jobs(J, S) ==
    IF S = {} THEN J
    ELSE LET n == CHOOSE x \in S : TRUE
         IN  remove_jobs(remove_job(J, job_id(n)), S \ {n})

JobsWithId(J, id) == { j \in DOMAIN J : j.id = id }
TimersOf(J, n) == LET S == JobsWithId(J, job_id(n))
                  IN  IF S = {} THEN 0
                      ELSE BagCardinality([j \in S |-> J[j]])

\* datetime(e.scheduled_at, '-' || n.notification_minutes || ' minutes')
notify_at(scheduled_at, minutes) == scheduled_at - minutes

\* The rows schedule_notifications selects: unsent, joined to their event, the
\* fire instant (a local time) later than t, SQLite's datetime('now').
Eligible(E, N, t) ==
    { n \in DOMAIN N :
        /\ N[n].event_id \in DOMAIN E
        /\ ~N[n].is_sent
        /\ notify_at(E[N[n].event_id].scheduled_at, N[n].notification_minutes) > t }

\* The body of the loop of schedule_notifications for one selected row.
schedule_one(J, E, N, n) ==
    add_job(remove_job(J, job_id(n)),
            Job(n, notify_at(E[N[n].event_id].scheduled_at, N[n].notification_minutes),
                E[N[n].event_id].user_id, N[n].event_id))

RECURSIVE schedule_rows(_, _, _, _)
schedule_rows(J, E, N, S) ==
    IF S = {} THEN J
    ELSE LET n == CHOOSE x \in S : TRUE
         IN  schedule_rows(schedule_one(J, E, N, n), E, N, S \ {n})

schedule_notifications(J, E, N, t) == schedule_rows(J, E, N, Eligible(E, N, t))

\* ---------------------------------------------------- the event matcher
\* The pairs of a query and a description of the model that Similar accepts.
SimilarPairs ==
    { p : p \in { x \in (Queries \cup Descriptions \cup {<<>>}) \X Descriptions :
                    Similar(x[1], x[2]) } }

\* find_similar_events: the user's future events that are similar enough,
\* ordered by scheduled_at (the stable sort keeps the order of the query,
\* which is by id).
Matching(E, u, query, t) ==
    { e \in DOMAIN E :
        /\ E[e].user_id = u
        /\ E[e].scheduled_at > t
        /\ <<query, E[e].description>> \in SimilarPairs }

\* A sort that keeps the order of the query, by id.
RECURSIVE SortById(_, _)
SortById(E, S) ==
    IF S = {} THEN <<>>
    ELSE LET e == CHOOSE x \in S : \A y \in S : x <= y
         IN  <<e>> \o SortById(E, S \ {e})

RECURSIVE SortByTime(_, _)
SortByTime(E, S) ==
    IF S = {} THEN <<>>
    ELSE LET e == CHOOSE x \in S :
                    \A y \in S : \/ E[x].scheduled_at < E[y].scheduled_at
                                 \/ (E[x].scheduled_at = E[y].scheduled_at /\ x <= y)
         IN  <<e>> \o SortByTime(E, S \ {e})

find_similar_events(E, u, query, t) == SortByTime(E, Matching(E, u, query, t))

\* find_similar_events called with a threshold of its own; SimilarAt over the
\* texts and thresholds of the model, computed once.
Thresholds == { <<1, 10>>, <<3, 10>>, <<6, 10>>, <<1, 1>> }

SimilarTriples ==
    { p : p \in { x \in (Queries \cup Descriptions) \X Descriptions \X Thresholds :
                    SimilarAt(x[1], x[2], x[3]) } }

\* A filter that forgets the owner.
MatchingAnyone(E, u, query, t, threshold) ==
    { e \in DOMAIN E :
        /\ E[e].scheduled_at > t
        /\ <<query, E[e].description, threshold>> \in SimilarTriples }

MatchingAt(E, u, query, t, threshold) ==
    { e \in DOMAIN E :
        /\ E[e].user_id = u
        /\ E[e].scheduled_at > t
        /\ <<query, E[e].description, threshold>> \in SimilarTriples }

find_similar_events_at(E, u, query, t, threshold) ==
    SortByTime(E, MatchingAt(E, u, query, t, threshold))


\* ------------------------------------------------------- the validator
valid_commands == { "create", "delete", "change_time", "change_date",
                    "change_description", "change_full", "list" }

\* The correction of a parsed instant that is not later than now.
future_correction(dt, t) ==
    IF dt > t THEN dt
    ELSE IF YearOf(dt) < YearOf(t)
         THEN LET this_year == ReplaceYear(dt, YearOf(t))
              IN  IF this_year = ValueError THEN ValueError
                  ELSE IF this_year <= t THEN ReplaceYear(dt, YearOf(t) + 1)
                  ELSE this_year
         ELSE dt + Day

\* One timestamp field after the validator's loop body: the string kept or
\* rewritten by isoformat(); BadIso when the body raised ValueError.
corrected_field(s, t) ==
    IF s = NoIso \/ s = BadIso THEN s
    ELSE IF fromisoformat(s) <= t
         THEN LET dt == future_correction(fromisoformat(s), t)
              IN  IF dt = ValueError THEN BadIso ELSE isoformat(dt)
    ELSE s

\* A validator that does not ask for the event.
validate_any_event(p, t) ==
    LET datetime == corrected_field(p.datetime, t)
        new_datetime == corrected_field(p.new_datetime, t)
    IN  IF ~p.json THEN <<>>
        ELSE IF p.command \notin valid_commands THEN <<>>
        ELSE IF datetime = BadIso THEN <<>>
        ELSE IF new_datetime = BadIso THEN <<>>
        ELSE << [p EXCEPT !.datetime = datetime, !.new_datetime = new_datetime] >>

\* validate_and_parse_json: <<>> for None, <<payload>> for the dict returned.
validate_and_parse_json(p, t) ==
    LET datetime == corrected_field(p.datetime, t)
        new_datetime == corrected_field(p.new_datetime, t)
    IN  IF ~p.json THEN <<>>
        ELSE IF p.command \notin valid_commands THEN <<>>
        ELSE IF p.command # "list" /\ p.event = <<>> THEN <<>>
        ELSE IF datetime = BadIso THEN <<>>
        ELSE IF new_datetime = BadIso THEN <<>>
        ELSE << [p EXCEPT !.datetime = datetime, !.new_datetime = new_datetime] >>

\* parse_time_input: <<>> for None, <<"time", minute of the day>> for
\* ("time", "HH:MM"), <<"date", day>> for ("date", "YYYY-MM-DD").
parse_time_input(text, t) ==
    CASE text.kind = "hhmm" ->
            IF 0 <= text.h /\ text.h <= 23 /\ 0 <= text.m /\ text.m <= 59
            THEN <<"time", text.h * 60 + text.m>>
            ELSE <<>>
      [] text.kind = "hh" ->
            IF 0 <= text.h /\ text.h <= 23 THEN <<"time", text.h * 60>> ELSE <<>>
      [] text.kind = "today" -> <<"date", t \div Day>>
      [] text.kind = "tomorrow" -> <<"date", (t + Day) \div Day>>
      [] text.kind = "aftertomorrow" -> <<"date", (t + 2 * Day) \div Day>>
      [] text.kind = "dm" ->
            LET parsed_date == IF text.d = NoDay THEN ValueError
                               ELSE ReplaceYear(text.d * Day, YearOf(t))
                moved == IF parsed_date # ValueError /\ parsed_date <= t
                         THEN ReplaceYear(parsed_date, YearOf(t) + 1)
                         ELSE parsed_date
            IN  IF moved = ValueError THEN <<>> ELSE <<"date", moved \div Day>>
      [] text.kind = "dmy" -> <<"date", text.d>>
      [] OTHER -> <<>>

\* ------------------------------------------------------------- helpers
FreeSlot(S, max) == CHOOSE k \in 1..max : \A x \in S : x.k # k

\* A suspended handle_notification_selection holds task_data, a reference to
\* the user's dict.  While that dict is the one in pending_tasks the coroutine
\* reads it there (attached); once pending_tasks drops or replaces it, the
\* coroutine is left with the dict as it was.
Detach(C, P, u) ==
    { IF c.user = u /\ c.attached
      THEN [c EXCEPT !.attached = FALSE, !.event = P[u].event,
                     !.datetime = P[u].datetime]
      ELSE c : c \in C }

TaskOf(c) == IF c.attached THEN pending_tasks[c.user]
             ELSE [event |-> c.event, datetime |-> c.datetime]

\* The send_notification coroutines, begun or yet to begin, whose notification
\* row is deleted: `row` tells whether the row a coroutine was started for is
\* still the one stored under its id.
Orphan(S, ids) ==
    { IF s.notification_id \in ids THEN [s EXCEPT !.row = FALSE] ELSE s : s \in S }

NewHistory(N2) ==
    [n \in DOMAIN N2 |-> IF n \in DOMAIN history THEN history[n]
                         ELSE [delivered |-> 0, failed |-> FALSE]]

\* --------------------------------------------------------------- steps
Init ==
    /\ tz \in Zones
    /\ texts = {}
    /\ now = Now0
    /\ events = <<>>
    /\ notifications = <<>>
    /\ jobs = EmptyBag
    /\ pending_tasks = <<>>
    /\ sends = {}
    /\ calls = {}
    /\ history = <<>>
    /\ last = Did("init", 0, 0, 0)

\* The same, the process in the zone UTC.
InitUtc == Init /\ tz = 0

\* SQLite's datetime('now'): UTC.
sqlite_now == now - tz

\* The clock moves on.  It does not wait for the scheduler: while a handler
\* keeps the event loop (requests.post in parse_message_with_ai, no timeout)
\* a timer that falls due stays registered behind the clock.
Tick(t) ==
    /\ t > now
    /\ t <= Horizon
    /\ now' = t
    /\ last' = Did("tick", 0, 0, 0)
    /\ UNCHANGED <<tz, texts, events, notifications, jobs, pending_tasks, sends, calls,
                   history>>

\* A change branch that leaves the scheduler alone.
leave_jobs(J, E2, N, e, t) == J

\* The part of the change_time / change_date / change_full branch that turns
\* on the scheduler: the event's jobs removed, then schedule_notifications().
reschedule_jobs(J, E2, N, e, t) ==
    schedule_notifications(remove_jobs(J, NotificationsOf(N, e)), E2, N, t)

\* A delete branch that leaves the scheduler alone.
keep_jobs(J, N, e) == J

\* The delete branch (and handle_delete_event) on the scheduler.
delete_jobs(J, N, e) == remove_jobs(J, NotificationsOf(N, e))

\* handle_event_text, the manual reply to a pending task.
ManualReply(u, pi) ==
    LET task == pending_tasks[u]
        t1 == IF pi[1] = "time" THEN Put(task, "time", pi[2]) ELSE Put(task, "date", pi[2])
        t2 == IF pi[1] = "time"
              THEN IF "date" \in DOMAIN task
                   THEN Del(Put(t1, "datetime", Iso(task.date, pi[2])), "need_time")
                   ELSE t1
              ELSE IF "time" \in DOMAIN task
                   THEN Del(Put(t1, "datetime", Iso(pi[2], task.time)), "need_date")
                   ELSE t1
    IN  /\ pending_tasks' = Put(pending_tasks, u, t2)
        /\ last' = Told("manual", u, 0, 0, pi, 0)
        /\ UNCHANGED <<tz, now, events, notifications, jobs, sends, calls, history>>

\* handle_event_text, a command the validator accepted.
Command(u, c) ==
    LET found == find_similar_events(events, u, c.event, now)
    IN
    CASE c.command = "create" ->
            /\ pending_tasks' =
                 Put(pending_tasks, u,
                     IF c.datetime = NoIso
                     THEN [event |-> c.event, need_time |-> TRUE, need_date |-> TRUE]
                     ELSE [event |-> c.event, datetime |-> c.datetime])
            /\ calls' = IF u \in DOMAIN pending_tasks THEN Detach(calls, pending_tasks, u)
                        ELSE calls
            /\ last' = Did("create", u, 0, 0)
            /\ UNCHANGED <<tz, now, events, notifications, jobs, sends, history>>
      [] c.command = "delete" /\ Len(found) = 1 ->
            /\ jobs' = delete_jobs(jobs, notifications, found[1])
            /\ events' = delete_event(events, found[1])
            /\ notifications' = delete_cascade(notifications, found[1])
            /\ history' = NewHistory(notifications')
            /\ sends' = Orphan(sends, NotificationsOf(notifications, found[1]))
            /\ last' = Told("delete", u, found[1],
                             OneOf(NotificationsOf(notifications, found[1])), c.event,
                             events[found[1]].scheduled_at)
            /\ UNCHANGED <<tz, now, pending_tasks, calls>>
      [] c.command \in {"change_time", "change_date", "change_full"}
         /\ Len(found) = 1 /\ c.new_datetime # NoIso ->
            /\ events' = [events EXCEPT ![found[1]].scheduled_at =
                                             fromisoformat(c.new_datetime)]
            /\ jobs' = reschedule_jobs(jobs, events', notifications, found[1], sqlite_now)
            /\ last' = Told("change", u, found[1],
                             OneOf(NotificationsOf(notifications, found[1])), c.event,
                             events[found[1]].scheduled_at)
            /\ UNCHANGED <<tz, now, notifications, pending_tasks, sends, calls, history>>
      [] c.command = "change_description" /\ Len(found) = 1 /\ c.new_event # <<>> ->
            /\ events' = [events EXCEPT ![found[1]].description = c.new_event]
            /\ last' = Told("describe", u, found[1], 0, c.event,
                             events[found[1]].scheduled_at)
            /\ UNCHANGED <<tz, now, notifications, jobs, pending_tasks, sends, calls, history>>
      [] OTHER ->
            /\ last' = IF c.command = "list" THEN Did("list", u, 0, 0)
                        ELSE Told(IF Len(found) = 0 THEN "not_found"
                                  ELSE IF c.command = "delete" THEN "choice"
                                  ELSE "in_development",
                                  u, 0, 0, c.event, 0)
            /\ UNCHANGED <<tz, now, events, notifications, jobs, pending_tasks, sends, calls,
                           history>>

\* A handler that answers "not understood" and drops the user's task.
forget_task(u, pi) ==
    /\ IF u \in DOMAIN pending_tasks
       THEN /\ pending_tasks' = Del(pending_tasks, u)
            /\ calls' = Detach(calls, pending_tasks, u)
       ELSE UNCHANGED <<pending_tasks, calls>>
    /\ last' = Told("not_understood", u, 0, 0, pi, 0)
    /\ UNCHANGED <<tz, now, events, notifications, jobs, sends, history>>

\* handle_event_text when the validator returned nothing: the completion
\* service gave no token, an error response, no answer (gigachat_reply then
\* returns a warning text, which is no JSON) or an invalid payload.  The
\* handler replies "not understood" and returns; pi is what parse_time_input
\* made of the text.
not_understood(u, pi) ==
    /\ last' = Told("not_understood", u, 0, 0, pi, 0)
    /\ UNCHANGED <<tz, now, events, notifications, jobs, pending_tasks, sends, calls, history>>

\* handle_event_text from the await of send_chat_action on: the completion
\* service asked, its answer validated, the command carried out.
completion(u, msg, pi) ==
    LET parsed == validate_and_parse_json(msg.payload, now)
    IN  IF parsed = <<>>
        THEN not_understood(u, pi)
        ELSE Command(u, parsed[1])

\* handle_event_text at `await bot.send_chat_action`: the text was a time or
\* a date that the manual path did not take.
await_typing(u, msg, pi) ==
    /\ Cardinality(texts) < MaxTexts
    /\ texts' = texts \cup { [k |-> FreeSlot(texts, MaxTexts), user |-> u, msg |-> msg,
                               pi |-> pi] }
    /\ last' = Told("typing", u, 0, 0, pi, 0)
    /\ UNCHANGED <<tz, now, events, notifications, jobs, pending_tasks, sends, calls,
                   history>>

\* A handler that takes every time or date reply for the pending task,
\* whatever the task still needs.
handle_reply_unasked(u, msg) ==
    LET pi == parse_time_input(msg.text, now)
    IN  IF pi # <<>> /\ u \in DOMAIN pending_tasks
        THEN ManualReply(u, pi) /\ UNCHANGED texts
        ELSE IF pi = <<>>
        THEN completion(u, msg, pi) /\ UNCHANGED texts
        ELSE await_typing(u, msg, pi)

\* handle_event_text up to its first await: the manual reply to the pending
\* task, or `await bot.send_chat_action`.  Before that await the handler
\* reads pending_tasks only when the text is a time or a date; for any other
\* text nothing it read or wrote precedes the await, and the message counts
\* as handled when the handler goes on from it.
handle_event_text(u, msg) ==
    LET pi == parse_time_input(msg.text, now)
    IN  IF /\ pi # <<>>
           /\ u \in DOMAIN pending_tasks
           /\ \/ pi[1] = "time" /\ "need_time" \in DOMAIN pending_tasks[u]
              \/ pi[1] = "date" /\ "need_date" \in DOMAIN pending_tasks[u]
        THEN ManualReply(u, pi) /\ UNCHANGED texts
        ELSE IF pi = <<>>
        THEN completion(u, msg, pi) /\ UNCHANGED texts
        ELSE await_typing(u, msg, pi)

\* handle_event_text goes on after send_chat_action.
resume_text(c) ==
    /\ texts' = texts \ {c}
    /\ completion(c.user, c.msg, c.pi)

\* send_chat_action raises (the Bot API is not reached): the await stands
\* before the try, the exception ends the handler, nothing is replied.
abort_text(c) ==
    /\ texts' = texts \ {c}
    /\ last' = Told("text_failed", c.user, 0, 0, c.pi, 0)
    /\ UNCHANGED <<tz, now, events, notifications, jobs, pending_tasks, sends, calls,
                   history>>

\* 1 when the step before was the end of this user's creation with the
\* confirmation failed (the event committed, pending_tasks[u] kept): the
\* choice now accepted is made on the task that event was made from.
Again(u) == IF last.op = "notify_failed" /\ last.u = u THEN 1 ELSE 0

\* A selection handler that asks only for a pending task and a known option.
NotifyAnyTask(u, data) ==
    LET info == notification_info(data)
    IN  IF u \notin DOMAIN pending_tasks
        THEN /\ last' = Told("notify_ignored", u, 0, 0, data, 0)
             /\ UNCHANGED <<tz, texts, now, events, notifications, jobs, pending_tasks, sends,
                            calls, history>>
        ELSE IF info # <<>>
        THEN /\ Cardinality(calls) < MaxCalls
             /\ calls' = calls \cup
                  { [k |-> FreeSlot(calls, MaxCalls), user |-> u, minutes |-> info[1],
                     attached |-> TRUE, event |-> <<>>, datetime |-> NoIso,
                     pc |-> "typing"] }
             /\ last' = Told("notify_begin", u, 0, 0, data, Again(u))
             /\ UNCHANGED <<tz, texts, now, events, notifications, jobs, pending_tasks, sends,
                            history>>
        ELSE /\ last' = Told("notify_reject", u, 0, 0, data, 0)
             /\ UNCHANGED <<tz, texts, now, events, notifications, jobs, pending_tasks, sends,
                            calls, history>>

\* handle_notification_selection up to its first await (send_chat_action), or
\* to its end when it creates nothing.
NotifyBegin(u, data) ==
    LET info == notification_info(data)
    IN  IF u \notin DOMAIN pending_tasks
        THEN /\ last' = Told("notify_ignored", u, 0, 0, data, 0)
             /\ UNCHANGED <<tz, texts, now, events, notifications, jobs, pending_tasks, sends,
                            calls, history>>
        ELSE IF /\ info # <<>>
                /\ "event" \in DOMAIN pending_tasks[u]
                /\ "datetime" \in DOMAIN pending_tasks[u]
        THEN /\ Cardinality(calls) < MaxCalls
             /\ calls' = calls \cup
                  { [k |-> FreeSlot(calls, MaxCalls), user |-> u, minutes |-> info[1],
                     attached |-> TRUE, event |-> <<>>, datetime |-> NoIso,
                     pc |-> "typing"] }
             /\ last' = Told("notify_begin", u, 0, 0, data, Again(u))
             /\ UNCHANGED <<tz, texts, now, events, notifications, jobs, pending_tasks, sends,
                            history>>
        ELSE /\ last' = Told("notify_reject", u, 0, 0, data, 0)
             /\ UNCHANGED <<tz, texts, now, events, notifications, jobs, pending_tasks, sends,
                            calls, history>>

\* send_chat_action raised: the handler ends there.
NotifyAbort(c) ==
    /\ c.pc = "typing"
    /\ calls' = calls \ {c}
    /\ last' = Did("noop", c.user, 0, 0)
    /\ UNCHANGED <<tz, texts, now, events, notifications, jobs, pending_tasks, sends, history>>

\* handle_notification_selection from send_chat_action to edit_text:
\* create_event_with_notification and schedule_notifications.
NotifyCreate(c) ==
    /\ c.pc = "typing"
    /\ events' = create_event(events, c.user, TaskOf(c).event,
                              fromisoformat(TaskOf(c).datetime))
    /\ notifications' = create_notification(events, notifications, c.minutes)
    /\ history' = NewHistory(notifications')
    /\ jobs' = schedule_notifications(jobs, events', notifications', sqlite_now)
    /\ calls' = (calls \ {c}) \cup {[c EXCEPT !.pc = "editing"]}
    /\ last' = Told("notify_create", c.user, NextId(events),
                    IF c.minutes > 0 THEN NextId(notifications) ELSE 0, <<>>,
                    IF last.op = "notify_begin" /\ last.u = c.user THEN last.was ELSE 0)
    /\ UNCHANGED <<tz, texts, now, pending_tasks, sends>>

\* handle_notification_selection after edit_text: del pending_tasks[user_id],
\* unless edit_text raised (ok = FALSE) or the key is gone (KeyError).
NotifyEnd(c, ok) ==
    /\ c.pc = "editing"
    /\ IF ok /\ c.user \in DOMAIN pending_tasks
       THEN /\ pending_tasks' = Del(pending_tasks, c.user)
            /\ calls' = Detach(calls \ {c}, pending_tasks, c.user)
            /\ last' = Did("notify_done", c.user, 0, 0)
       ELSE /\ calls' = calls \ {c}
            /\ last' = Did("notify_failed", c.user, 0, 0)
            /\ UNCHANGED pending_tasks
    /\ UNCHANGED <<tz, texts, now, events, notifications, jobs, sends, history>>

\* handle_delete_event
handle_delete_event(u, e) ==
    IF e \in DOMAIN events /\ events[e].user_id = u
    THEN /\ jobs' = delete_jobs(jobs, notifications, e)
         /\ events' = delete_event(events, e)
         /\ notifications' = delete_cascade(notifications, e)
         /\ history' = NewHistory(notifications')
         /\ sends' = Orphan(sends, NotificationsOf(notifications, e))
         /\ last' = Did("delete_button", u, e, 0)
         /\ UNCHANGED <<tz, texts, now, pending_tasks, calls>>
    ELSE /\ last' = Did("noop", u, 0, 0)
         /\ UNCHANGED <<tz, texts, now, events, notifications, jobs, pending_tasks, sends, calls,
                        history>>

\* handle_cancel
cancel_everyone(u) ==
    /\ pending_tasks' = <<>>
    /\ calls' = { IF c.attached
                  THEN [c EXCEPT !.attached = FALSE,
                                 !.event = pending_tasks[c.user].event,
                                 !.datetime = pending_tasks[c.user].datetime]
                  ELSE c : c \in calls }
    /\ last' = Did("cancel", u, 0, 0)
    /\ UNCHANGED <<tz, texts, now, events, notifications, jobs, sends, history>>

handle_cancel(u) ==
    /\ IF u \in DOMAIN pending_tasks
       THEN /\ pending_tasks' = Del(pending_tasks, u)
            /\ calls' = Detach(calls, pending_tasks, u)
       ELSE UNCHANGED <<pending_tasks, calls>>
    /\ last' = Did("cancel", u, 0, 0)
    /\ UNCHANGED <<tz, texts, now, events, notifications, jobs, sends, history>>

\* A reminder made of what the timer holds, its own run date, with the
\* description read from the store.
message_of_timer(E, j) ==
    [description |-> E[j.event_id].description, scheduled_at |-> j.run_date]

\* send_notification: what the SELECT gives for the job's ids, the fields
\* that message_text is made of.
fired_message(E, j) ==
    [description |-> E[j.event_id].description,
     scheduled_at |-> E[j.event_id].scheduled_at]

\* A timer is due: the scheduler's callback drops the job (a date trigger
\* runs once) and hands send_notification(user_id, event_id, notification_id)
\* to the event loop as a task; the coroutine's first line runs in a later
\* turn of the loop.
Fire(j) ==
    /\ j.run_date <= now
    /\ Cardinality(sends) < MaxSends
    /\ jobs' = jobs (-) SetToBag({j})
    /\ sends' = sends \cup
         { [k |-> FreeSlot(sends, MaxSends), user_id |-> j.user_id,
            event_id |-> j.event_id, notification_id |-> j.notification_id,
            run_date |-> j.run_date, started |-> FALSE,
            description |-> <<>>, scheduled_at |-> 0,
            retry |-> FALSE, row |-> TRUE] }
    /\ last' = Did("fire", j.user_id, j.event_id, j.notification_id)
    /\ UNCHANGED <<tz, texts, now, events, notifications, pending_tasks, calls, history>>

\* The task starts.  The executor compares the clock with the run date: late
\* by more than the misfire grace of AsyncIOScheduler(), one second, the run
\* is logged as missed and send_notification is not called.  A run date
\* behind the clock is late by a minute or more; within the minute of the run
\* date the task is late by more than a second (late) or is not.  Else
\* send_notification reads the event/notification pair; with no such pair it
\* returns, with one it makes the reminder of it and awaits bot.send_message.
SendBegin(s, late) ==
    /\ ~s.started
    /\ IF s.run_date < now \/ late
       THEN /\ sends' = sends \ {s}
            /\ last' = Did("missed", s.user_id, s.event_id, s.notification_id)
       ELSE IF /\ s.event_id \in DOMAIN events
               /\ s.notification_id \in DOMAIN notifications
               /\ notifications[s.notification_id].event_id = s.event_id
       THEN /\ sends' = (sends \ {s}) \cup
                 { [s EXCEPT !.started = TRUE,
                             !.description = fired_message(events, s).description,
                             !.scheduled_at = fired_message(events, s).scheduled_at,
                             !.retry = history[s.notification_id].failed] }
            /\ last' = Did("send", s.user_id, s.event_id, s.notification_id)
       ELSE /\ sends' = sends \ {s}
            /\ last' = Did("nothing_to_send", s.user_id, s.event_id, s.notification_id)
    /\ UNCHANGED <<tz, texts, now, events, notifications, jobs, pending_tasks, calls,
                   history>>

\* An UPDATE that flips the flag.
flip_sent(N, n) == IF n \in DOMAIN N THEN [N EXCEPT ![n].is_sent = ~@] ELSE N

\* The UPDATE of send_notification after a delivery.
mark_sent(N, n) == IF n \in DOMAIN N THEN [N EXCEPT ![n].is_sent = TRUE] ELSE N

\* send_notification after bot.send_message: the row marked sent, or, when the
\* delivery raised (ok = FALSE), the exception logged.
SendDone(s, ok) ==
    /\ s.started
    /\ sends' = sends \ {s}
    /\ IF ok
       THEN /\ notifications' = mark_sent(notifications, s.notification_id)
            /\ history' = IF s.row
                          THEN [history EXCEPT ![s.notification_id].delivered =
                                                   Min(@ + 1, MaxCount)]
                          ELSE history
            /\ last' = Did("delivered", s.user_id, s.event_id, s.notification_id)
       ELSE /\ history' = IF s.row
                          THEN [history EXCEPT ![s.notification_id].failed = TRUE]
                          ELSE history
            /\ last' = Did("delivery_failed", s.user_id, s.event_id, s.notification_id)
            /\ UNCHANGED notifications
    /\ UNCHANGED <<tz, texts, now, events, jobs, pending_tasks, calls>>

\* The process stops and main() starts again: what memory held is gone, the
\* store is kept, schedule_notifications() fills the scheduler.
Restart ==
    /\ jobs' = schedule_notifications(EmptyBag, events, notifications, sqlite_now)
    /\ texts' = {}
    /\ pending_tasks' = <<>>
    /\ sends' = {}
    /\ calls' = {}
    /\ last' = Did("restart", 0, 0, 0)
    /\ UNCHANGED <<tz, now, events, notifications, history>>

\* One step of the program, its inputs drawn from the users U, the messages M
\* and the button presses K (each with its user), the event ids kept within
\* 1..B.
Step(U, M, K, B) ==
    \/ \E t \in Checkpoints \cup { j.run_date : j \in DOMAIN jobs } : Tick(t)
    \/ \E i \in M : handle_event_text(i.user, i.msg)
    \/ \E i \in K : NotifyBegin(i.user, i.data)
    \/ \E c \in calls : NotifyAbort(c)
    \/ \E c \in calls : NextId(events) <= B /\ NotifyCreate(c)
    \/ \E c \in calls, ok \in BOOLEAN : NotifyEnd(c, ok)
    \/ \E u \in U, e \in 1..B : handle_delete_event(u, e)
    \/ \E u \in U : handle_cancel(u)
    \/ \E j \in DOMAIN jobs : Fire(j)
    \/ \E s \in sends, late \in BOOLEAN : SendBegin(s, late)
    \/ \E s \in sends, ok \in BOOLEAN : SendDone(s, ok)
    \/ Restart

\* ---------------------------------------------------------------- scopes
\* A process in UTC.  One event at a time, of user 1: created for Noon, moved
\* to Later, deleted, renamed; queries that match it and one that matches
\* nothing; the keyboard's 15 minutes and "no notification" buttons.  User 2
\* owns nothing and asks to delete and to move it.
TextsOne ==
    { Said(Payload("create", <<"a", "b">>, Noon, NoIso, <<>>)),
      Said(Payload("create", <<"a", "b">>, Past, NoIso, <<>>)),
      Said(Payload("change_time", <<"A", "b">>, NoIso, Later, <<>>)),
      Said(Payload("change_full", <<"e", "e">>, NoIso, Later, <<>>)),
      Said(Payload("change_date", <<"A", "b">>, NoIso, NoIso, <<>>)),
      Said(Payload("change_description", <<"A", "b">>, NoIso, NoIso, <<"c", "d">>)),
      Said(Payload("delete", <<"a", "d">>, NoIso, NoIso, <<>>)),
      Said(Payload("delete", <<"e", "e">>, NoIso, NoIso, <<>>)),
      Said(Malformed) }

KeysOne == { <<"notify", "15min">>, <<"notify", "no", "notification">> }

TextsOther ==
    { Said(Payload("delete", <<"A", "b">>, NoIso, NoIso, <<>>)),
      Said(Payload("change_time", <<"a", "d">>, NoIso, Later, <<>>)) }

Next == Step(Users, Sent({1}, TextsOne) \cup Sent({2}, TextsOther),
             Pressed({1}, KeysOne), MaxId)

Spec == InitUtc /\ [][Next]_vars

\* Two events side by side, "ab" and "cd": the query "ad" matches both, so it
\* matches none, one or several of the user's events as they come and go.
TextsPair ==
    { Said(Payload("create", <<"a", "b">>, Noon, NoIso, <<>>)),
      Said(Payload("create", <<"c", "d">>, Noon, NoIso, <<>>)),
      Said(Payload("delete", <<"a", "d">>, NoIso, NoIso, <<>>)),
      Said(Payload("change_description", <<"a", "d">>, NoIso, NoIso, <<"a", "b">>)) }

KeysPair == { <<"notify", "15min">> }

NextPair == Step({1}, Sent({1}, TextsPair), Pressed({1}, KeysPair), MaxIdPair)

SpecPair == InitUtc /\ [][NextPair]_vars

\* Every button of the keyboard; the task's time and date given by hand
\* ("12:00", the date four days ahead).
TextsKeys ==
    { Said(Payload("create", <<"c", "d">>, NoIso, NoIso, <<>>)),
      Typed(Clock(12, 0)),
      Typed(Clock(25, 0)),
      Typed(Dated(389)),
      Said(Payload("delete", <<"a", "d">>, NoIso, NoIso, <<>>)) }

NextKeys ==
    \/ Step({1}, Sent({1}, TextsKeys), Pressed({1}, create_notification_keyboard), MaxId)
    \/ \E c \in texts : resume_text(c)
    \/ \E c \in texts : abort_text(c)

SpecKeys == InitUtc /\ [][NextKeys]_vars

\* One user whose creation lacks the date and the time, and the replies that
\* give them in each form: an hour alone ("15"), a time that is none ("25:00"),
\* a day and a month (today's "20.01", which is next year's, and "31.02"),
\* a day word; the 15 minutes button.
TextsReplies ==
    { Said(Payload("create", <<"c", "d">>, NoIso, NoIso, <<>>)),
      Typed(Hour(15)),
      Typed(Clock(25, 0)),
      Typed(DayMonth(19)),
      Typed(DayMonth(NoDay)),
      Typed(Word("aftertomorrow")) }

KeysReplies == { <<"notify", "15min">> }

NextReplies ==
    \/ Step({1}, Sent({1}, TextsReplies), Pressed({1}, KeysReplies), MaxId)
    \/ \E c \in texts : resume_text(c)
    \/ \E c \in texts : abort_text(c)

SpecReplies == InitUtc /\ [][NextReplies]_vars

\* Two users with a creation under way each: a create for the day after
\* tomorrow, a create for a day of last week, a command that finds nothing.
TextsTasks ==
    { Said(Payload("create", <<"a", "b">>, Noon, NoIso, <<>>)),
      Said(Payload("create", <<"c", "d">>, Old, NoIso, <<>>)),
      Said(Payload("delete", <<"e", "e">>, NoIso, NoIso, <<>>)) }

KeysTasks == { <<"notify", "15min">> }

NextTasks == Step(Users, Sent(Users, TextsTasks), Pressed(Users, KeysTasks), MaxId)

SpecTasks == InitUtc /\ [][NextTasks]_vars

\* Two users, an event each with a reminder 15 minutes ahead: user 1 creates
\* "ab" for the day after tomorrow, user 2 "cd" for a day of last week.
TextsShared ==
    Sent({1}, { Said(Payload("create", <<"a", "b">>, Noon, NoIso, <<>>)) })
      \cup Sent({2}, { Said(Payload("create", <<"c", "d">>, Old, NoIso, <<>>)) })

KeysShared == { <<"notify", "15min">> }

NextShared == Step(Users, TextsShared, Pressed(Users, KeysShared), MaxIdPair)

SpecShared == Init /\ [][NextShared]_vars

\* One user, one event at a time: created for Noon with a reminder 15 minutes
\* ahead, moved to Later, deleted.
TextsLive ==
    { Said(Payload("create", <<"a", "b">>, Noon, NoIso, <<>>)),
      Said(Payload("change_time", <<"A", "b">>, NoIso, Later, <<>>)),
      Said(Payload("delete", <<"A", "b">>, NoIso, NoIso, <<>>)) }

KeysLive == { <<"notify", "15min">> }

NextLive == Step({1}, Sent({1}, TextsLive), Pressed({1}, KeysLive), MaxId)

\* What the scheduling gives: the clock runs on, the scheduler starts the
\* timers that are due, bot.send_message returns or raises.
FairLive ==
    /\ WF_vars(\E t \in Checkpoints \cup { j.run_date : j \in DOMAIN jobs } : Tick(t))
    /\ WF_vars(\E j \in DOMAIN jobs : Fire(j))
    /\ WF_vars(\E s \in sends, late \in BOOLEAN : SendBegin(s, late))
    /\ WF_vars(\E s \in sends, ok \in BOOLEAN : SendDone(s, ok))

SpecLive == InitUtc /\ [][NextLive]_vars /\ FairLive

\* A process in any zone, one user: an event created for today 12:00, two
\* hours ahead, with a reminder 15 minutes before it.
TextsZones == { Said(Payload("create", <<"a", "b">>, Soon, NoIso, <<>>)) }

KeysZones == { <<"notify", "15min">> }

NextZones == Step({1}, Sent({1}, TextsZones), Pressed({1}, KeysZones), MaxId)

SpecZones == Init /\ [][NextZones]_vars

\* ------------------------------------------------- the functions called
\* The pure functions, applied to arguments drawn from small sets; `last`
\* holds the call: its arguments and what it returned.
Called(op, u, arg, th, out) == [op |-> op, u |-> u, arg |-> arg, th |-> th, out |-> out]

\* find_similar_events over the stores of up to two events: of either user,
\* lapsed or to come, with descriptions that score 1, 1/2, 1/3 and 0 against
\* the queries; at the default threshold and at thresholds from 1/10 to 1.
TimesFind == { fromisoformat(Past), fromisoformat(Noon), fromisoformat(Later) }
RowsFind == { EventRow(u, d, at) : u \in Users, d \in Descriptions, at \in TimesFind }
StoresFind == {<<>>} \cup { <<r>> : r \in RowsFind }
                     \cup { <<r[1], r[2]>> : r \in RowsFind \X RowsFind }
QueriesFind == Queries \cup Descriptions

InitFind ==
    /\ tz = 0
    /\ texts = {}
    /\ now = Now0
    /\ events \in StoresFind
    /\ notifications = <<>>
    /\ jobs = EmptyBag
    /\ pending_tasks = <<>>
    /\ sends = {}
    /\ calls = {}
    /\ history = <<>>
    /\ last = Called("init", 0, <<>>, Threshold, <<>>)

CallFind(u, query) ==
    /\ last' = Called("find", u, query, Threshold, find_similar_events(events, u, query, now))
    /\ UNCHANGED <<tz, texts, now, events, notifications, jobs, pending_tasks, sends, calls,
                   history>>

CallFindAt(u, query, threshold) ==
    /\ last' = Called("find", u, query, threshold,
                       find_similar_events_at(events, u, query, now, threshold))
    /\ UNCHANGED <<tz, texts, now, events, notifications, jobs, pending_tasks, sends, calls,
                   history>>

NextFind ==
    \/ \E u \in Users, q \in QueriesFind : CallFind(u, q)
    \/ \E u \in Users, q \in QueriesFind, th \in Thresholds : CallFindAt(u, q, th)

SpecFind == InitFind /\ [][NextFind]_vars

\* validate_and_parse_json over payloads with a known and an unknown command,
\* with and without the event, each timestamp absent, unparsable, to come,
\* earlier today, last week, last year (a day later in the year than today,
\* an earlier one, 29 February); the clock in a common year and in a leap year.
LastSpring  == Iso(100, 480)
LastJanuary == Iso(5, 480)
LeapDay     == Iso(59, 480)
NowLeap == YearStart(4) + 20 * Day + 600
ClocksValidate == { Now0, NowLeap }
StampsValidate == { NoIso, BadIso, Noon, Past, Old, LastSpring, LastJanuary, LeapDay }
PayloadsValidate ==
    { Payload(c, ev, dt, ndt, <<>>) :
        c \in {"create", "delete", "change_time", "list", "remind"},
        ev \in { <<>>, <<"a", "b">> },
        dt \in StampsValidate,
        ndt \in { NoIso, BadIso, Old } }
    \cup { Malformed }

InitValidate ==
    /\ tz = 0
    /\ texts = {}
    /\ now \in ClocksValidate
    /\ events = <<>>
    /\ notifications = <<>>
    /\ jobs = EmptyBag
    /\ pending_tasks = <<>>
    /\ sends = {}
    /\ calls = {}
    /\ history = <<>>
    /\ last = Called("init", 0, <<>>, Threshold, <<>>)

CallValidate(p) ==
    /\ last' = Called("validate", 0, p, Threshold, validate_and_parse_json(p, now))
    /\ UNCHANGED <<tz, texts, now, events, notifications, jobs, pending_tasks, sends, calls,
                   history>>

NextValidate == \E p \in PayloadsValidate : CallValidate(p)

SpecValidate == InitValidate /\ [][NextValidate]_vars

\* create_event_with_notification with every lead of NOTIFICATION_OPTIONS,
\* the lead 0 of "no notification" among them, up to two events.
LeadsCreate == { NOTIFICATION_OPTIONS[k] : k \in DOMAIN NOTIFICATION_OPTIONS }

CallCreate(u, d, at, minutes) ==
    /\ events' = create_event(events, u, d, at)
    /\ notifications' = create_notification(events, notifications, minutes)
    /\ last' = Called("created", u, minutes, Threshold, NextId(events))
    /\ UNCHANGED <<tz, texts, now, jobs, pending_tasks, sends, calls, history>>

NextCreate ==
    \E u \in Users, d \in {<<"a", "b">>}, at \in {fromisoformat(Noon), fromisoformat(Later)},
       minutes \in LeadsCreate :
        NextId(events) <= MaxIdPair /\ CallCreate(u, d, at, minutes)

SpecCreate == InitUtc /\ [][NextCreate]_vars

\* ---------------------------------------------------------------- claims
\* A step in which a change command moved event e to another instant.
Moved(e) ==
    /\ last'.op = "change"
    /\ last'.e = e
    /\ e \in DOMAIN events
    /\ events'[e].scheduled_at # events[e].scheduled_at

\* C1: each notification record leads to at most one delivered reminder.
C1_AtMostOnce == \A n \in DOMAIN history : history[n].delivered <= 1

\* C2: when a change command moves an event, each notification the event had,
\* sent ones too, is replaced by a fresh unsent notification record of the same
\* lead time: no record the event had is sent after the change.
C2_Recreated ==
    [][\A e \in DOMAIN events : Moved(e) =>
         \A n \in NotificationsOf(notifications, e) :
            /\ \E m \in NotificationsOf(notifications', e) :
                  /\ notifications'[m].notification_minutes =
                        notifications[n].notification_minutes
                  /\ ~notifications'[m].is_sent
            /\ (n \in DOMAIN notifications' => ~notifications'[n].is_sent)]_vars

\* The state after a change command moved an event to another instant.
AfterMove ==
    /\ last.op = "change"
    /\ last.e \in DOMAIN events
    /\ events[last.e].scheduled_at # last.was

\* The timers of the registry follow the events: each is one of an existing
\* notification of an existing event and is set to the event's present instant
\* minus the lead time.
TimersFollowEvent ==
    \A j \in DOMAIN jobs :
        /\ j.notification_id \in DOMAIN notifications
        /\ j.id = job_id(j.notification_id)
        /\ notifications[j.notification_id].event_id = j.event_id
        /\ j.event_id \in DOMAIN events
        /\ j.run_date = events[j.event_id].scheduled_at
                          - notifications[j.notification_id].notification_minutes

\* A step in which the scheduler takes a due timer: the timer is set to the
\* present instant of its event minus the lead time.
FiresAtPresentInstant ==
    last'.op = "fire"
      => \A s \in sends' \ sends :
           /\ s.event_id \in DOMAIN events
           /\ s.notification_id \in DOMAIN notifications
           /\ s.run_date = events[s.event_id].scheduled_at
                             - notifications[s.notification_id].notification_minutes

\* C3: after a change from T to T' no timer of the event fires at T - lead:
\* every registered timer is one of an existing notification of an existing
\* event and is set to the event's present instant minus the lead time, and
\* so is every timer the scheduler takes.
C3_TimersFollowEvent == []TimersFollowEvent /\ [][FiresAtPresentInstant]_vars

\* A timer set to T' - lead after the change from T to T'.
C3_Witness ==
    /\ AfterMove
    /\ last.n \in DOMAIN notifications
    /\ \E j \in DOMAIN jobs :
          /\ j.notification_id = last.n
          /\ j.run_date = events[last.e].scheduled_at
                            - notifications[last.n].notification_minutes
          /\ j.run_date # last.was - notifications[last.n].notification_minutes

\* The notifications with sent = false and fire instant > now.
Unsent(n) ==
    /\ n \in DOMAIN notifications
    /\ notifications[n].event_id \in DOMAIN events
    /\ ~notifications[n].is_sent
    /\ events[notifications[n].event_id].scheduled_at
         - notifications[n].notification_minutes > now

\* C4: schedule_notifications called on any state leaves exactly one timer for
\* each notification with sent = false and fire instant > now, under the id of
\* the notification, and no timer twice; called again it changes nothing, and
\* right after a step that called it, calling it changes nothing either.
C4_Idempotent ==
    LET once == schedule_notifications(jobs, events, notifications, sqlite_now)
        twice == schedule_notifications(once, events, notifications, sqlite_now)
    IN  /\ twice = once
        /\ \A n \in DOMAIN notifications : Unsent(n) => TimersOf(once, n) = 1
        /\ \A j \in DOMAIN once : once[j] = 1
        /\ \A j \in DOMAIN once : j.id = job_id(j.notification_id)
        /\ last.op \in {"restart", "change", "notify_create"} => once = jobs

\* C5: after a restart the registry holds exactly one timer for each
\* notification with sent = false and fire instant > now, set to the event's
\* instant minus the lead minutes, and nothing else.
C5_RestartRecovery ==
    last.op = "restart" =>
        jobs = SetToBag({ Job(n, events[notifications[n].event_id].scheduled_at
                                   - notifications[n].notification_minutes,
                              events[notifications[n].event_id].user_id,
                              notifications[n].event_id) :
                          n \in { x \in DOMAIN notifications : Unsent(x) } })

\* C6: a notification for which send_notification ran with its rows in place
\* is sent, whether the delivery succeeded or failed.
C6_SentEitherWay ==
    \A n \in DOMAIN notifications :
        (history[n].delivered > 0 \/ history[n].failed) => notifications[n].is_sent

\* C7: no delivery is attempted for a notification of which a delivery attempt
\* has failed.
C7_NoRetry == \A s \in sends : ~s.retry

\* C8: a delete command whose query matches exactly one of the user's future
\* events removes the event and its notification records, and no timer stays
\* registered for any of them.
C8_DeleteCascade ==
    [][last'.op = "delete" =>
         /\ Matching(events, last'.u, last'.q, now) = {last'.e}
         /\ last'.e \notin DOMAIN events'
         /\ \A n \in NotificationsOf(notifications, last'.e) :
              /\ n \notin DOMAIN notifications'
              /\ TimersOf(jobs', n) = 0
         /\ \A j \in DOMAIN jobs' : j.event_id # last'.e]_vars

\* An event deleted with its notification, no timer left.
C8_Witness ==
    /\ last.op = "delete"
    /\ last.e \notin DOMAIN events
    /\ last.n # 0
    /\ last.n \notin DOMAIN notifications
    /\ TimersOf(jobs, last.n) = 0

\* C9: a delete or change command whose query matches no or several of the
\* user's future events leaves events, notifications and timers unchanged, and
\* is answered "not found" (no match) or with the choice of the events (several).
C9_NeverGuessed ==
    [][(/\ last'.op \in {"delete", "change", "describe", "not_found", "choice",
                         "in_development"}
        /\ Cardinality(Matching(events, last'.u, last'.q, now)) # 1) =>
         /\ UNCHANGED <<events, notifications, jobs>>
         /\ last'.op = IF Matching(events, last'.u, last'.q, now) = {}
                       THEN "not_found" ELSE "choice"]_vars

\* C10: a button of the keyboard pressed while the user's pending task holds a
\* description and a datetime is not turned down.
C10_EveryOption ==
    ~ /\ last.op = "notify_reject"
      /\ last.q \in create_notification_keyboard
      /\ last.u \in DOMAIN pending_tasks
      /\ "event" \in DOMAIN pending_tasks[last.u]
      /\ "datetime" \in DOMAIN pending_tasks[last.u]

\* C11: creating an event with the lead L adds exactly one notification row
\* for it when L > 0 (lead L, unsent, its fire instant the scheduled instant
\* minus L) and none when L = 0; the rows of other events stay as they were.
C11_OneNotification ==
    [][last'.op = "created"
         => LET e == last'.out
                L == last'.arg
                new == DOMAIN notifications' \ DOMAIN notifications
            IN  /\ e \in DOMAIN events' \ DOMAIN events
                /\ \A n \in DOMAIN notifications :
                      n \in DOMAIN notifications' /\ notifications'[n] = notifications[n]
                /\ Cardinality(new) = IF L > 0 THEN 1 ELSE 0
                /\ \A n \in new :
                      /\ notifications'[n].event_id = e
                      /\ notifications'[n].notification_minutes = L
                      /\ ~notifications'[n].is_sent
                      /\ notify_at(events'[e].scheduled_at,
                                   notifications'[n].notification_minutes)
                           = events'[e].scheduled_at - L]_vars

\* An event created with the lead 0, after one created with a positive lead:
\* the first has its row, the second has none.
C11_Witness ==
    /\ last.op = "created" /\ last.arg = 0
    /\ last.out \in DOMAIN events
    /\ NotificationsOf(notifications, last.out) = {}
    /\ \E f \in DOMAIN events : Cardinality(NotificationsOf(notifications, f)) = 1

\* C12: a new top-level command replaces the user's pending task, so that
\* the task held before it is no longer held: after delete, change_* or list
\* the user holds no task (after create, the new one).
TopLevelReplies == {"delete", "change", "describe", "list", "not_found", "choice",
                    "in_development"}

C12_CommandOverwrites ==
    [][last'.op \in TopLevelReplies => last'.u \notin DOMAIN pending_tasks']_vars

\* C13: the cancel button leaves its user without a pending task, whatever
\* the task held and also when there was none, and changes no event, no
\* notification, no timer and no other user's pending task.
C13_CancelClears ==
    [][last'.op = "cancel"
         => /\ last'.u \notin DOMAIN pending_tasks'
            /\ UNCHANGED <<events, notifications, jobs>>
            /\ \A v \in Users \ {last'.u} :
                  /\ v \in DOMAIN pending_tasks' <=> v \in DOMAIN pending_tasks
                  /\ v \in DOMAIN pending_tasks => pending_tasks'[v] = pending_tasks[v]]_vars

\* A cancel while the other user holds a task and an event with its timer is
\* stored.
C13_Witness ==
    /\ last.op = "cancel"
    /\ \E v \in Users \ {last.u} : v \in DOMAIN pending_tasks
    /\ events # <<>> /\ notifications # <<>> /\ jobs # EmptyBag

\* C14: at the moment an operation sets an event's scheduled instant (the
\* creation at the notification choice, a reschedule), that instant is
\* strictly later than the clock.
C14_ScheduledInFuture ==
    last.op \in {"notify_create", "change"} => events[last.e].scheduled_at > now

\* C15: every timestamp field of a payload that validate_and_parse_json
\* accepts is strictly later than the clock.
C15_AcceptedIsFuture ==
    (last.op = "validate" /\ last.out # <<>>)
      => /\ last.out[1].datetime # NoIso => fromisoformat(last.out[1].datetime) > now
         /\ last.out[1].new_datetime # NoIso => fromisoformat(last.out[1].new_datetime) > now

\* C16: the correction of a parsed timestamp: later than the clock, it is
\* kept; not later and of the current year, it is moved on by exactly one
\* day; of an earlier year, it is given the current year (same day of the
\* year, same time) and, if that is still not later than the clock, the next.
InYear(r, dt, y) ==
    /\ YearOf(r) = y
    /\ DayInLeapYear(r) = DayInLeapYear(dt)
    /\ r % Day = dt % Day

FollowsRule(dt, r, t) ==
    IF dt > t THEN r = dt
    ELSE IF YearOf(dt) >= YearOf(t) THEN r = dt + Day
    ELSE \/ InYear(r, dt, YearOf(t)) /\ r > t
         \/ InYear(r, dt, YearOf(t) + 1) /\ ReplaceYear(dt, YearOf(t)) <= t

WellFormed(p) ==
    /\ p.json
    /\ p.command \in valid_commands
    /\ p.command = "list" \/ p.event # <<>>
    /\ p.datetime # BadIso /\ p.new_datetime # BadIso

C16_CorrectionRule ==
    (last.op = "validate" /\ WellFormed(last.arg))
      => /\ last.out # <<>>
         /\ IF last.arg.datetime = NoIso THEN last.out[1].datetime = NoIso
            ELSE FollowsRule(fromisoformat(last.arg.datetime),
                             fromisoformat(last.out[1].datetime), now)
         /\ IF last.arg.new_datetime = NoIso THEN last.out[1].new_datetime = NoIso
            ELSE FollowsRule(fromisoformat(last.arg.new_datetime),
                             fromisoformat(last.out[1].new_datetime), now)

\* C17: validate_and_parse_json returns nothing for a reply that is no JSON
\* object, for an unknown command, for a command other than list without an
\* event, and for a timestamp that is present and does not parse; a list
\* payload without an event is accepted.
C17_Rejects ==
    last.op = "validate"
      => /\ ( \/ ~last.arg.json
              \/ last.arg.command \notin
                   {"create", "delete", "change_time", "change_date",
                    "change_description", "change_full", "list"}
              \/ last.arg.command # "list" /\ last.arg.event = <<>>
              \/ last.arg.datetime = BadIso
              \/ last.arg.new_datetime = BadIso ) => last.out = <<>>
         /\ ( /\ last.arg.json /\ last.arg.command = "list" /\ last.arg.event = <<>>
              /\ last.arg.datetime = NoIso /\ last.arg.new_datetime = NoIso )
              => last.out = <<last.arg>>

\* A delete, change or create payload whose only flaw is the missing event,
\* rejected.
C17_Witness ==
    /\ last.op = "validate" /\ last.out = <<>>
    /\ last.arg.json /\ last.arg.command \in {"create", "delete", "change_time"}
    /\ last.arg.event = <<>>
    /\ last.arg.datetime \in {NoIso, Noon} /\ last.arg.new_datetime = NoIso

\* C18: find_similar_events returns its matches in ascending order of the
\* scheduled instant, whatever their scores.
C18_OrderedByTime ==
    last.op = "find"
      => \A i, j \in 1..Len(last.out) :
           i < j => events[last.out[i]].scheduled_at <= events[last.out[j]].scheduled_at

\* Two matches, the earlier one with the lower score and the higher id.
C18_Witness ==
    /\ last.op = "find" /\ Len(last.out) = 2
    /\ last.out[1] > last.out[2]
    /\ events[last.out[1]].scheduled_at < events[last.out[2]].scheduled_at
    /\ ~RatioGeq(final_similarity(last.arg, events[last.out[1]].description),
                 final_similarity(last.arg, events[last.out[2]].description))

\* The two scores of every query and description of the scope, worked out
\* from what the scores are said to be: `whole` is 2 * M / T of the two texts
\* in small letters, M the characters the matching blocks hold and T the sum of
\* the lengths; `words` is the number of words the two texts share over the
\* larger of their numbers of words, a word being a run of characters between
\* whitespace.
Scores ==
    {
      [query |-> <<"A", "b">>, description |-> <<"a", "b">>,
       whole |-> <<4, 4>>, words |-> <<1, 1>>],
      [query |-> <<"A", "b">>, description |-> <<"c", "d">>,
       whole |-> <<0, 4>>, words |-> <<0, 1>>],
      [query |-> <<"A", "b">>, description |-> <<"a", "d">>,
       whole |-> <<2, 4>>, words |-> <<0, 1>>],
      [query |-> <<"A", "b">>, description |-> <<"a", " ", "b">>,
       whole |-> <<4, 5>>, words |-> <<0, 2>>],
      [query |-> <<"a", "d">>, description |-> <<"a", "b">>,
       whole |-> <<2, 4>>, words |-> <<0, 1>>],
      [query |-> <<"a", "d">>, description |-> <<"c", "d">>,
       whole |-> <<2, 4>>, words |-> <<0, 1>>],
      [query |-> <<"a", "d">>, description |-> <<"a", "d">>,
       whole |-> <<4, 4>>, words |-> <<1, 1>>],
      [query |-> <<"a", "d">>, description |-> <<"a", " ", "b">>,
       whole |-> <<2, 5>>, words |-> <<0, 2>>],
      [query |-> <<"e", "e">>, description |-> <<"a", "b">>,
       whole |-> <<0, 4>>, words |-> <<0, 1>>],
      [query |-> <<"e", "e">>, description |-> <<"c", "d">>,
       whole |-> <<0, 4>>, words |-> <<0, 1>>],
      [query |-> <<"e", "e">>, description |-> <<"a", "d">>,
       whole |-> <<0, 4>>, words |-> <<0, 1>>],
      [query |-> <<"e", "e">>, description |-> <<"a", " ", "b">>,
       whole |-> <<0, 5>>, words |-> <<0, 2>>],
      [query |-> <<"b", "\t", "U+00A0", "a">>, description |-> <<"a", "b">>,
       whole |-> <<2, 6>>, words |-> <<0, 2>>],
      [query |-> <<"b", "\t", "U+00A0", "a">>, description |-> <<"c", "d">>,
       whole |-> <<0, 6>>, words |-> <<0, 2>>],
      [query |-> <<"b", "\t", "U+00A0", "a">>, description |-> <<"a", "d">>,
       whole |-> <<2, 6>>, words |-> <<0, 2>>],
      [query |-> <<"b", "\t", "U+00A0", "a">>, description |-> <<"a", " ", "b">>,
       whole |-> <<2, 7>>, words |-> <<2, 2>>],
      [query |-> <<"a", "b">>, description |-> <<"a", "b">>,
       whole |-> <<4, 4>>, words |-> <<1, 1>>],
      [query |-> <<"a", "b">>, description |-> <<"c", "d">>,
       whole |-> <<0, 4>>, words |-> <<0, 1>>],
      [query |-> <<"a", "b">>, description |-> <<"a", "d">>,
       whole |-> <<2, 4>>, words |-> <<0, 1>>],
      [query |-> <<"a", "b">>, description |-> <<"a", " ", "b">>,
       whole |-> <<4, 5>>, words |-> <<0, 2>>],
      [query |-> <<"c", "d">>, description |-> <<"a", "b">>,
       whole |-> <<0, 4>>, words |-> <<0, 1>>],
      [query |-> <<"c", "d">>, description |-> <<"c", "d">>,
       whole |-> <<4, 4>>, words |-> <<1, 1>>],
      [query |-> <<"c", "d">>, description |-> <<"a", "d">>,
       whole |-> <<2, 4>>, words |-> <<0, 1>>],
      [query |-> <<"c", "d">>, description |-> <<"a", " ", "b">>,
       whole |-> <<0, 5>>, words |-> <<0, 2>>],
      [query |-> <<"a", " ", "b">>, description |-> <<"a", "b">>,
       whole |-> <<4, 5>>, words |-> <<0, 2>>],
      [query |-> <<"a", " ", "b">>, description |-> <<"c", "d">>,
       whole |-> <<0, 5>>, words |-> <<0, 2>>],
      [query |-> <<"a", " ", "b">>, description |-> <<"a", "d">>,
       whole |-> <<2, 5>>, words |-> <<0, 2>>],
      [query |-> <<"a", " ", "b">>, description |-> <<"a", " ", "b">>,
       whole |-> <<6, 6>>, words |-> <<2, 2>>] }

\* The score reaches the threshold: the larger of the two does.
ScoreReaches(query, description, threshold) ==
    \E r \in Scores :
        /\ r.query = query
        /\ r.description = description
        /\ \/ r.whole[1] * threshold[2] >= threshold[1] * r.whole[2]
           \/ r.words[1] * threshold[2] >= threshold[1] * r.words[2]

\* C19: find_similar_events returns exactly the events of the user that are
\* to come and whose score, the larger of the whole-string ratio and the
\* word overlap, reaches the threshold, each once; an event of the user to
\* come whose description is the query is among them for every threshold up
\* to 1; events of other users and lapsed events never are.
C19_ExactlyTheSimilar ==
    last.op = "find"
      => LET out == { last.out[i] : i \in 1..Len(last.out) }
             own == { e \in DOMAIN events :
                        events[e].user_id = last.u /\ events[e].scheduled_at > now }
         IN  /\ out = { e \in own :
                          ScoreReaches(last.arg, events[e].description, last.th) }
             /\ Len(last.out) = Cardinality(out)
             /\ \A e \in own : events[e].description = last.arg => e \in out
             /\ \A e \in out : events[e].user_id = last.u /\ events[e].scheduled_at > now

\* At the threshold 1 the event described by the query is returned, and an
\* event with the same description, lapsed or of another user, is not.
C19_Witness ==
    /\ last.op = "find" /\ last.th = <<1, 1>>
    /\ \E e \in DOMAIN events :
          /\ events[e].description = last.arg
          /\ last.out = <<e>>
    /\ \E f \in DOMAIN events :
          /\ events[f].description = last.arg
          /\ f \notin { last.out[i] : i \in 1..Len(last.out) }

\* C20: handling a message for which the completion service failed or gave
\* an invalid payload changes no event, no notification, no timer and no
\* user's pending task, and the handler ends with the "not understood" reply.
C20_FailureChangesNothing ==
    [][last'.op = "not_understood"
         => UNCHANGED <<events, notifications, jobs, pending_tasks>>]_vars

\* The failure is handled while an event is stored, its timer is registered
\* and the user holds a pending task.
C20_Witness ==
    /\ last.op = "not_understood"
    /\ events # <<>> /\ notifications # <<>> /\ jobs # EmptyBag
    /\ last.u \in DOMAIN pending_tasks

\* C21: the sent flag never goes back: a notification that is marked sent is
\* marked sent after every step that keeps its record.
C21_SentStaysSent ==
    [][\A n \in DOMAIN notifications \cap DOMAIN notifications' :
         notifications[n].is_sent => notifications'[n].is_sent]_vars

\* The event of a sent notification has just been moved to a later instant,
\* the step that re-runs the scheduler over its rows.
C21_Witness ==
    /\ last.op = "change"
    /\ last.n \in DOMAIN notifications
    /\ notifications[last.n].is_sent
    /\ events[last.e].scheduled_at > last.was

Asked(u, pi) ==
    /\ u \in DOMAIN pending_tasks
    /\ \/ pi[1] = "time" /\ "need_time" \in DOMAIN pending_tasks[u]
       \/ pi[1] = "date" /\ "need_date" \in DOMAIN pending_tasks[u]

\* C22: a time reply changes the user's pending task by the manual path only
\* while the task exists and carries need_time, a date reply only while it
\* exists and carries need_date; any other time or date reply goes to the
\* extractor as a new message and the manual path leaves the task as it was.
C22_ReplyOnlyWhenAsked ==
    [][/\ last'.op = "manual" => Asked(last'.u, last'.q)
       /\ last'.op = "typing"
            => /\ last'.q # <<>>
               /\ ~Asked(last'.u, last'.q)
               /\ UNCHANGED pending_tasks
               /\ \E c \in texts' \ texts : c.user = last'.u /\ c.pi = last'.q
       /\ (last'.op = "not_understood" /\ last'.q # <<>>)
            => /\ UNCHANGED pending_tasks
               /\ \E c \in texts \ texts' : c.user = last'.u /\ c.pi = last'.q]_vars

\* A time reply that went to the extractor while the user held a task that
\* did not ask for the time, and was not understood there.
C22_Witness ==
    /\ last.op = "not_understood"
    /\ last.q # <<>> /\ last.q[1] = "time"
    /\ last.u \in DOMAIN pending_tasks
    /\ "need_time" \notin DOMAIN pending_tasks[last.u]
    /\ "datetime" \in DOMAIN pending_tasks[last.u]

\* C23: in a pending task of an incomplete create the flags mark exactly
\* what is missing: need_time is there iff no time was given, need_date iff
\* no date was given.
C23_FlagsMarkMissing ==
    \A u \in DOMAIN pending_tasks :
        LET task == pending_tasks[u]
        IN  DOMAIN task \cap {"need_time", "need_date", "time", "date"} # {}
              => /\ "need_time" \in DOMAIN task <=> "time" \notin DOMAIN task
                 /\ "need_date" \in DOMAIN task <=> "date" \notin DOMAIN task

\* C24: the reminder that send_notification delivers carries the event's
\* description and scheduled instant as stored when the timer fires, so after
\* a change_description between scheduling and firing it shows the new one.
C24_ReadAtFireTime ==
    [][last'.op = "send"
         => \A s \in sends' \ sends :
              /\ s.event_id = last'.e
              /\ s.description = events[last'.e].description
              /\ s.scheduled_at = events[last'.e].scheduled_at]_vars

\* A reminder under way for an event that was renamed after its timer was
\* registered at creation.
C24_Witness ==
    /\ last.op = "send"
    /\ \E s \in sends :
          /\ s.notification_id = last.n
          /\ s.description = <<"c", "d">>
          /\ s.description = events[last.e].description

Complete(u) ==
    /\ u \in DOMAIN pending_tasks
    /\ {"event", "datetime"} \subseteq DOMAIN pending_tasks[u]

\* C25: an event is created from a pending task only when the task holds a
\* description and a datetime: a notification choice that arrives while the
\* user has no pending task, or one without a datetime, starts no creation,
\* creates no event and no notification and leaves the pending task as it was;
\* and no event appears but by a creation so started.
C25_OnlyCompleteTasks ==
    [][/\ last'.op = "notify_begin" => Complete(last'.u)
       /\ (last'.op \in {"notify_begin", "notify_reject", "notify_ignored"}
             /\ ~Complete(last'.u))
            => UNCHANGED <<events, notifications, jobs, pending_tasks, calls>>
       /\ DOMAIN events' \ DOMAIN events # {}
            => /\ last'.op = "notify_create"
               /\ \E c \in calls : c.pc = "typing" /\ c.user = last'.u
               /\ events'[last'.e].description # <<>>]_vars

\* A known option chosen while the task has its time and still lacks the
\* date: refused.
C25_Witness ==
    /\ last.op = "notify_reject"
    /\ notification_info(last.q) # <<>>
    /\ last.u \in DOMAIN pending_tasks
    /\ "time" \in DOMAIN pending_tasks[last.u]
    /\ "datetime" \notin DOMAIN pending_tasks[last.u]

\* C26: one completed pending task yields one event: once an event has been
\* committed from the task, a further notification choice (a second click, or
\* a click after the confirmation edit failed) creates no second event from
\* it.  Here: no creation is the one of a choice that was accepted right
\* after the failed confirmation of the same user's creation.
C26_OneEventPerTask ==
    last.op = "notify_create" => last.was = 0

\* C27: every timer in the registry is one of a notification record that
\* exists, whose event exists and whose sent flag is false.
C27_TimersOfUnsent ==
    \A j \in DOMAIN jobs :
        /\ j.notification_id \in DOMAIN notifications
        /\ notifications[j.notification_id].event_id \in DOMAIN events
        /\ ~notifications[j.notification_id].is_sent

EventsOf(E, u) == { e \in DOMAIN E : E[e].user_id = u }
RowsOf(E, N, u) == { n \in DOMAIN N : N[n].event_id \in EventsOf(E, u) }
TimersOfUser(J, u) == { j \in DOMAIN J : j.user_id = u }
FromUser == {"create", "delete", "change", "describe", "list", "not_found", "choice",
             "in_development", "manual", "typing", "text_failed", "not_understood",
             "notify_ignored",
             "notify_begin", "notify_reject", "notify_create", "notify_done",
             "notify_failed", "delete_button", "cancel", "noop"}

\* C28: a message or a button of one user changes nothing of another user:
\* not the other's events, nor their notifications, nor their timers, nor
\* the other's pending task.
C28_UserIsolation ==
    [][last'.op \in FromUser
         => \A b \in Users \ {last'.u} :
              /\ EventsOf(events', b) = EventsOf(events, b)
              /\ \A e \in EventsOf(events, b) : events'[e] = events[e]
              /\ RowsOf(events', notifications', b) = RowsOf(events, notifications, b)
              /\ \A n \in RowsOf(events, notifications, b) :
                    notifications'[n] = notifications[n]
              /\ TimersOfUser(jobs', b) = TimersOfUser(jobs, b)
              /\ \A j \in TimersOfUser(jobs, b) : jobs'[j] = jobs[j]
              /\ b \in DOMAIN pending_tasks' <=> b \in DOMAIN pending_tasks
              /\ b \in DOMAIN pending_tasks
                   => pending_tasks'[b] = pending_tasks[b]]_vars

\* C29: once an event is deleted no reminder for it is started: the delete
\* leaves no timer of the event or of its notifications, no timer is one of
\* an event that is not stored, and a send_notification that the scheduler
\* started for the deleted event sends nothing when it runs.
C29_NoReminderAfterDelete ==
    [][/\ last'.op \in {"delete", "delete_button"}
            => \A j \in DOMAIN jobs' :
                 /\ j.event_id # last'.e
                 /\ j.notification_id \notin NotificationsOf(notifications, last'.e)
       /\ \A j \in DOMAIN jobs' : j.event_id \in DOMAIN events'
       /\ last'.op = "send" => \A s \in sends' \ sends : s.row]_vars

FireInstant(n) ==
    notify_at(events[notifications[n].event_id].scheduled_at,
              notifications[n].notification_minutes)

Armed(n) ==
    /\ last.op = "notify_create"
    /\ last.n = n
    /\ n \in DOMAIN notifications
    /\ notifications[n].notification_minutes > 0
    /\ FireInstant(n) > now

Attempted(n) ==
    /\ last.op = "send"
    /\ last.n = n
    /\ \E s \in sends : s.notification_id = n /\ s.started

Excused(n) ==
    \/ n \notin DOMAIN notifications
    \/ last.op = "change" /\ last.n = n
    \/ last.op = "restart" /\ FireInstant(n) <= now

C30_TimerRegistered ==
    \A n \in 1..MaxId : Armed(n) => TimersOf(jobs, n) = 1

\* C30: a notification created with a lead above 0 and a fire instant later
\* than now has its timer registered when it is created, and a delivery of it
\* is attempted in the end unless its event is deleted or moved, or the
\* process starts again after the fire instant.
C30_DeliveryAttempted ==
    /\ []C30_TimerRegistered
    /\ \A n \in 1..MaxId : Armed(n) ~> (Attempted(n) \/ Excused(n))

====
